---- MODULE Spec2Model ----
(***************************************************************************)
(* Tracking engine of real-estate-search: building resolution, listing     *)
(* upsert, price-history ledger, status transitions and historical-sale    *)
(* creation, modelled statement by statement over the relational store.    *)
(*                                                                         *)
(* Every db.execute / execute_insert / execute_update of the services      *)
(* opens its own connection and commits on its own (core/database.py), so  *)
(* one store statement is one atomic step.  A handler is the sequence of   *)
(* its steps; Spec runs each handler to completion (sequential calls),     *)
(* SpecFault lets a write statement raise, and SpecConc interleaves the    *)
(* steps of two calls.                                                     *)
(***************************************************************************)
EXTENDS Integers, FiniteSets, Sequences, TLC

\* Python None in integer positions (ids, prices, dates) and the absent /
\* empty string: both are falsy in the handlers' `if x:` tests.
None == -1
Absent == ""

\* Bounds of the model.
MaxDay == 1
MaxEvents == 2
MaxBuildings == 3
MaxPriceRows == 2
MaxSales == 2

MlsNumbers == {"M1", "M2"}
Labels == {"X", "Y"}
Days == 0..MaxDay
Prices == {0, 1, 2}
Statuses == {"Active", "Sold", "Expired", "Cancelled", "Pending"}
Hints == {"Price Change", "Sold"}
Procs == {1, 2}

VARIABLES
  db,         \* the store: one set of rows per table
  clock,      \* what datetime.now() / date.today() return
  tiePolicy,  \* order the store returns rows that tie in an ORDER BY
  procs,      \* SpecConc: the calls in progress, one per worker
  fs          \* the photo storage: the entries under each artifact root

vars == <<db, clock, tiePolicy, procs, fs>>

building == db.building
listing == db.listing
price_history == db.price_history
tracking_event == db.tracking_event
historical_sale == db.historical_sale
listing_photo == db.listing_photo

----------------------------------------------------------------------------
\* Store primitives

Max(S) == CHOOSE x \in S : \A y \in S : y <= x
Min(S) == CHOOSE x \in S : \A y \in S : x <= y

\* cursor.lastrowid of an INSERT into an INTEGER PRIMARY KEY table
NewId(rows) == IF rows = {} THEN 1 ELSE Max({r.id : r \in rows}) + 1

\* fetch_one of a SELECT without ORDER BY: the first row in rowid order
FirstId(rows) == IF rows = {} THEN None ELSE Min({r.id : r \in rows})

\* listing.mls_number is the listing's unique natural key
MlsUniqueViolation(d, mls) == \E l \in d.listing : l.mls_number = mls

\* SELECT price FROM price_history WHERE listing_id = ?
\*   ORDER BY recorded_date DESC LIMIT 1
LatestRows(d, lid) ==
  LET rows == {r \in d.price_history : r.listing_id = lid}
  IN {r \in rows : \A q \in rows : q.recorded_date <= r.recorded_date}

CurrentPrice(d, lid, tie) ==
  LET top == LatestRows(d, lid)
      pick == IF tie = "rowid_asc" THEN Min({r.id : r \in top})
                                   ELSE Max({r.id : r \in top})
  IN IF top = {} THEN None
     ELSE (CHOOSE r \in top : r.id = pick).price

\* _convert_params: a Decimal parameter is bound as float(p).  The prices
\* of the model are whole amounts far below 2^53: float represents them
\* exactly, equal amounts bind to equal floats, and Decimal(str(.)) reads
\* the stored value back unchanged.  Amounts of more than 15 significant
\* digits, which float would round, are outside the model.
ConvertParam(p) == p

----------------------------------------------------------------------------
\* A call in progress

NoCall ==
  [pc |-> "idle", op |-> "none", mls |-> Absent, name |-> Absent,
   address |-> Absent, status |-> Absent, price |-> None, date |-> None,
   hint |-> Absent, fault |-> 0, source_platform |-> Absent,
   existing |-> None, building_id |-> None, bld_created |-> FALSE,
   listing_id |-> None, now |-> None,
   is_new |-> FALSE, price_recorded |-> FALSE,
   rp_called |-> FALSE, rp_lid |-> None, rp_price |-> None,
   rp_date |-> None, rp_hint |-> Absent, rp_kind |-> Absent,
   rp_ret |-> "done", rp_id |-> None, rp_inserted |-> FALSE,
   sale_id |-> None, outcome |-> "none", result |-> FALSE]

NewCall(op, pc, mls, name, address, status, price, date, hint, fault) ==
  [NoCall EXCEPT !.pc = pc, !.op = op, !.mls = mls, !.name = name,
                 !.address = address, !.status = status, !.price = price,
                 !.date = date, !.hint = hint, !.fault = fault]

Out(d, pr) == [db |-> d, pr |-> pr]

\* an exception leaves the handler; nothing is rolled back
Raise(pr, exc) == [pr EXCEPT !.pc = "done", !.outcome = exc]

Return(pr, res) == [pr EXCEPT !.pc = "done", !.outcome = "ok", !.result = res]

\* the store raises on this write statement
Faulty(pr) == pr.fault = 1

Spend(pr) == [pr EXCEPT !.fault = IF @ > 0 THEN @ - 1 ELSE 0]

\* `if price:` -- None and a zero amount are both falsy
Truthy(price) == price # None /\ price # 0

----------------------------------------------------------------------------
\* ListingService._get_or_create_building

AfterBuilding(pr) == IF pr.op = "createSale" THEN "h_sale" ELSE "u_now"

\* the lookups entered in the other order: by address when one is given
BuildingEntry_AddressFirst(pr) ==
  IF pr.name = Absent /\ pr.address = Absent
    THEN [pr EXCEPT !.building_id = None, !.pc = "u_now"]
    ELSE [pr EXCEPT !.pc = IF pr.address # Absent THEN "b_addr" ELSE "b_name"]

\* line 25 and the `if name:` / `if address:` tests that need no statement
BuildingEntry(pr) ==
  IF pr.name = Absent /\ pr.address = Absent
    THEN [pr EXCEPT !.building_id = None, !.pc = "u_now"]
    ELSE [pr EXCEPT !.pc = IF pr.name # Absent THEN "b_name" ELSE "b_addr"]

\* SELECT id FROM building WHERE name = ?
SelectBuildingByName(d, name) == FirstId({b \in d.building : b.name = name})

\* SELECT id FROM building WHERE address = ?
SelectBuildingByAddress(d, address) ==
  FirstId({b \in d.building : b.address = address})

B_Name(d, pr) ==
  LET found == SelectBuildingByName(d, pr.name)
  IN IF found # None
       THEN Out(d, [pr EXCEPT !.building_id = found, !.pc = AfterBuilding(pr)])
       ELSE Out(d, [pr EXCEPT !.pc = IF pr.address # Absent THEN "b_addr"
                                                            ELSE "b_ins"])

B_Addr(d, pr) ==
  LET found == SelectBuildingByAddress(d, pr.address)
  IN IF found # None
       THEN Out(d, [pr EXCEPT !.building_id = found, !.pc = AfterBuilding(pr)])
       ELSE Out(d, [pr EXCEPT !.pc = "b_ins"])

\* building_address = address or name or "Unknown"
BuildingAddress(name, address) ==
  IF address # Absent THEN address
  ELSE IF name # Absent THEN name ELSE "Unknown"

\* building_name = name or building_address
BuildingName(name, address) ==
  IF name # Absent THEN name ELSE BuildingAddress(name, address)

InsertBuilding(d, pr, name, address) ==
  IF Faulty(pr) THEN Out(d, Raise(pr, "StoreError"))
  ELSE LET id == NewId(d.building)
           row == [id |-> id, name |-> name, address |-> address]
       IN Out([d EXCEPT !.building = @ \cup {row}],
              [Spend(pr) EXCEPT !.building_id = id, !.bld_created = TRUE,
                                !.pc = AfterBuilding(pr)])

B_Ins(d, pr) ==
  InsertBuilding(d, pr, BuildingName(pr.name, pr.address),
                 BuildingAddress(pr.name, pr.address))

----------------------------------------------------------------------------
\* HistoricalSaleService._get_or_create_building and create_sale

H_Name(d, pr) ==
  LET found == SelectBuildingByName(d, pr.name)
  IN IF found # None
       THEN Out(d, [pr EXCEPT !.building_id = found, !.pc = "h_sale"])
       ELSE Out(d, [pr EXCEPT !.pc = IF pr.address # Absent THEN "h_addr"
                                                            ELSE "h_ins"])

H_Addr(d, pr) ==
  LET found == SelectBuildingByAddress(d, pr.address)
  IN IF found # None
       THEN Out(d, [pr EXCEPT !.building_id = found, !.pc = "h_sale"])
       ELSE Out(d, [pr EXCEPT !.pc = "h_ins"])

H_Ins(d, pr) ==
  InsertBuilding(d, pr, pr.name, BuildingAddress(pr.name, pr.address))

H_Sale(d, pr) ==
  IF Faulty(pr) THEN Out(d, Raise(pr, "StoreError"))
  ELSE LET id == NewId(d.historical_sale)
           row == [id |-> id, building_id |-> pr.building_id,
                   sale_price |-> ConvertParam(pr.price),
                   sale_date |-> pr.date]
       IN Out([d EXCEPT !.historical_sale = @ \cup {row}],
              [Return(Spend(pr), TRUE) EXCEPT !.sale_id = id])

----------------------------------------------------------------------------
\* ListingService._record_price

CallRecordPrice(pr, lid, price, date, hint, ret) ==
  [pr EXCEPT !.rp_called = TRUE, !.rp_lid = lid, !.rp_price = price,
             !.rp_date = date, !.rp_hint = hint, !.rp_kind = hint,
             !.rp_ret = ret, !.rp_id = None, !.rp_inserted = FALSE,
             !.pc = IF date = None THEN "rp_today" ELSE "rp_exists"]

\* back in the caller: both upsert branches set price_recorded = True
\* after the call, add_price builds its response
RecordPriceReturn(pr) ==
  IF pr.rp_ret = "done" THEN Return(pr, TRUE)
  ELSE [pr EXCEPT !.pc = pr.rp_ret, !.price_recorded = (pr.op = "upsert")]

\* price_date = date.today()
Rp_Today(d, pr, clk) ==
  Out(d, [pr EXCEPT !.rp_date = clk, !.pc = "rp_exists"])

\* the existence check with price and date bound in each other's place
SelectPriceEntry_Swapped(d, lid, date, price) ==
  FirstId({r \in d.price_history :
             /\ r.listing_id = lid
             /\ r.recorded_date = ConvertParam(price)
             /\ r.price = date})

\* SELECT id FROM price_history
\*   WHERE listing_id = ? AND recorded_date = ? AND price = ?
SelectPriceEntry(d, lid, date, price) ==
  FirstId({r \in d.price_history :
             /\ r.listing_id = lid
             /\ r.recorded_date = date
             /\ r.price = ConvertParam(price)})

Rp_Exists(d, pr) ==
  LET found == SelectPriceEntry(d, pr.rp_lid, pr.rp_date, pr.rp_price)
  IN IF found # None
       THEN Out(d, RecordPriceReturn([pr EXCEPT !.rp_id = found]))
       ELSE Out(d, [pr EXCEPT !.pc = IF pr.rp_hint = "Price Change"
                                       THEN "rp_prev" ELSE "rp_ins"])

\* the two comparisons exchanged
Classify_Swapped(price, prev_price, hint) ==
  IF price > prev_price THEN "Price Drop"
  ELSE IF price < prev_price THEN "Price Increase"
  ELSE hint

\* lines 103-108, reached with event_type == "Price Change"
Classify(price, prev_price, hint) ==
  IF price < prev_price THEN "Price Drop"
  ELSE IF price > prev_price THEN "Price Increase"
  ELSE hint

Rp_Prev(d, pr, tie) ==
  LET prev == CurrentPrice(d, pr.rp_lid, tie)
  IN Out(d, [pr EXCEPT !.pc = "rp_ins",
                       !.rp_kind = IF prev # None
                                     THEN Classify(pr.rp_price, prev, pr.rp_hint)
                                     ELSE pr.rp_hint])

Rp_Ins(d, pr) ==
  IF Faulty(pr) THEN Out(d, Raise(pr, "StoreError"))
  ELSE LET id == NewId(d.price_history)
           row == [id |-> id, listing_id |-> pr.rp_lid,
                   price |-> ConvertParam(pr.rp_price),
                   recorded_date |-> pr.rp_date, event_type |-> pr.rp_kind]
       IN Out([d EXCEPT !.price_history = @ \cup {row}],
              RecordPriceReturn([Spend(pr) EXCEPT !.rp_id = id,
                                                  !.rp_inserted = TRUE]))

----------------------------------------------------------------------------
\* ListingService.create_or_update_listing

\* the lookup without its WHERE clause
SelectListingByMls_Any(d, mls) == FirstId(d.listing)

\* SELECT id FROM listing WHERE mls_number = ?
SelectListingByMls(d, mls) == FirstId({l \in d.listing : l.mls_number = mls})

\* data.get("status", "Active")
StatusOrDefault(status) == IF status = Absent THEN "Active" ELSE status

\* data.get("source_platform", "Manual")
PlatformOrDefault(platform) ==
  IF platform = Absent THEN "Manual" ELSE platform

\* the lookup without the test of the MLS number
U_Check_Unchecked(d, pr) ==
  Out(d, BuildingEntry([pr EXCEPT
                          !.existing = SelectListingByMls(d, pr.mls)]))

\* lines 118-128
U_Check(d, pr) ==
  IF pr.mls = Absent THEN Out(d, Raise(pr, "ValueError"))
  ELSE Out(d, BuildingEntry([pr EXCEPT
                               !.existing = SelectListingByMls(d, pr.mls)]))

\* lines 137-140
U_Now(d, pr, clk) ==
  Out(d, [pr EXCEPT !.now = clk,
                    !.pc = IF pr.existing # None THEN "u_update"
                                                 ELSE "u_insert"])

\* the row written with the record's values where it has them and the
\* stored ones where it has none
UpdatedListing_Coalesce(l, pr) ==
  [l EXCEPT !.building_id = IF pr.building_id = None THEN @
                            ELSE pr.building_id,
            !.status = IF pr.status = Absent THEN @ ELSE pr.status,
            !.listing_date = IF pr.date = None THEN @ ELSE pr.date,
            !.source_platform = IF pr.source_platform = Absent THEN @
                                ELSE pr.source_platform,
            !.is_active = TRUE,
            !.last_seen_at = pr.now,
            !.updated_at = pr.now]

\* the row an upsert writes over an existing one: is_active = 1
UpdatedListing(l, pr) ==
  [l EXCEPT !.building_id = pr.building_id,
            !.status = StatusOrDefault(pr.status),
            !.listing_date = pr.date,
            !.source_platform = PlatformOrDefault(pr.source_platform),
            !.is_active = TRUE,
            !.last_seen_at = pr.now,
            !.updated_at = pr.now]

\* lines 142-187
U_Update(d, pr) ==
  IF Faulty(pr) THEN Out(d, Raise(pr, "StoreError"))
  ELSE Out([d EXCEPT !.listing = {IF l.id = pr.existing
                                    THEN UpdatedListing(l, pr) ELSE l
                                  : l \in @}],
           [Spend(pr) EXCEPT !.listing_id = pr.existing,
                             !.pc = IF Truthy(pr.price) THEN "u_curprice"
                                                        ELSE "u_evt"])

\* lines 188-197
U_CurPrice(d, pr, tie) ==
  LET current_price == CurrentPrice(d, pr.listing_id, tie)
  IN IF current_price = None \/ current_price # pr.price
       THEN Out(d, CallRecordPrice(pr, pr.listing_id, pr.price, None,
                                   "Price Change", "u_evt"))
       ELSE Out(d, [pr EXCEPT !.pc = "u_evt"])

\* the row an upsert inserts: is_active = 1, the four timestamps = now
InsertedListing(id, pr) ==
  [id |-> id, mls_number |-> pr.mls, building_id |-> pr.building_id,
   status |-> StatusOrDefault(pr.status), listing_date |-> pr.date,
   source_platform |-> PlatformOrDefault(pr.source_platform),
   is_active |-> TRUE, first_seen_at |-> pr.now, last_seen_at |-> pr.now,
   created_at |-> pr.now, updated_at |-> pr.now]

\* the listing row inserted whatever rows the table holds
ExecuteInsertListing_NoUnique(d, pr) ==
  LET id == NewId(d.listing)
      created == [Spend(pr) EXCEPT !.listing_id = id, !.is_new = TRUE]
  IN Out([d EXCEPT !.listing = @ \cup {InsertedListing(id, pr)}],
         IF Truthy(pr.price)
           THEN CallRecordPrice(created, id, pr.price, pr.date,
                                "Initial", "u_evt")
           ELSE [created EXCEPT !.pc = "u_evt"])

\* execute_insert of the listing row: the store's error propagates
ExecuteInsertListing(d, pr) ==
  IF MlsUniqueViolation(d, pr.mls) THEN Out(d, Raise(pr, "IntegrityError"))
  ELSE LET id == NewId(d.listing)
           created == [Spend(pr) EXCEPT !.listing_id = id, !.is_new = TRUE]
       IN Out([d EXCEPT !.listing = @ \cup {InsertedListing(id, pr)}],
              IF Truthy(pr.price)
                THEN CallRecordPrice(created, id, pr.price, pr.date,
                                     "Initial", "u_evt")
                ELSE [created EXCEPT !.pc = "u_evt"])

\* lines 216-248
U_Insert(d, pr) ==
  IF Faulty(pr) THEN Out(d, Raise(pr, "StoreError"))
  ELSE ExecuteInsertListing(d, pr)

InsertEvent(d, pr, kind) ==
  IF Faulty(pr) THEN Out(d, Raise(pr, "StoreError"))
  ELSE LET row == [id |-> NewId(d.tracking_event),
                   listing_id |-> pr.listing_id, event_type |-> kind]
       IN Out([d EXCEPT !.tracking_event = @ \cup {row}],
              Return(Spend(pr), TRUE))

\* lines 200-212 and 251-263
U_Evt(d, pr) ==
  InsertEvent(d, pr, IF pr.is_new THEN "Discovered" ELSE "Updated")

----------------------------------------------------------------------------
\* ListingService.update_status

TerminalStatuses == {"Sold", "Expired", "Cancelled"}

\* only a sale deactivates
IsActiveFor_SoldOnly(status) == status # "Sold"

\* 0 if status in ("Sold", "Expired", "Cancelled") else 1
IsActiveFor(status) == status \notin TerminalStatuses

\* lines 424-433
S_Sel(d, pr) ==
  LET found == SelectListingByMls(d, pr.mls)
  IN IF found = None THEN Out(d, Return(pr, FALSE))
     ELSE Out(d, [pr EXCEPT !.listing_id = found, !.pc = "s_now"])

S_Now(d, pr, clk) == Out(d, [pr EXCEPT !.now = clk, !.pc = "s_update"])

StatusUpdated(l, pr) ==
  [l EXCEPT !.status = pr.status,
            !.is_active = IsActiveFor(pr.status),
            !.last_seen_at = pr.now,
            !.updated_at = pr.now]

\* lines 436-449; `sale_date or date.today()` is read in rp_today
S_Update(d, pr) ==
  IF Faulty(pr) THEN Out(d, Raise(pr, "StoreError"))
  ELSE Out([d EXCEPT !.listing = {IF l.id = pr.listing_id
                                    THEN StatusUpdated(l, pr) ELSE l
                                  : l \in @}],
           IF Truthy(pr.price) /\ pr.status = "Sold"
             THEN CallRecordPrice(Spend(pr), pr.listing_id, pr.price,
                                  pr.date, "Sold", "s_evt")
             ELSE [Spend(pr) EXCEPT !.pc = "s_evt"])

\* the status change returned without its event
S_Evt_Unlogged(d, pr) == Out(d, Return(pr, TRUE))

\* lines 451-457
S_Evt(d, pr) == InsertEvent(d, pr, "StatusChange")

----------------------------------------------------------------------------
\* api/v1/listings.py add_price: the boundary's recordPrice

A_Sel(d, pr) ==
  LET found == SelectListingByMls(d, pr.mls)
  IN IF found = None THEN Out(d, Raise(pr, "NotFound"))
     ELSE Out(d, CallRecordPrice([pr EXCEPT !.listing_id = found], found,
                                 pr.price, pr.date, pr.hint, "done"))

----------------------------------------------------------------------------
\* One statement of a call

Step(d, pr, clk, tie) ==
  CASE pr.pc = "u_check"    -> U_Check(d, pr)
    [] pr.pc = "b_name"     -> B_Name(d, pr)
    [] pr.pc = "b_addr"     -> B_Addr(d, pr)
    [] pr.pc = "b_ins"      -> B_Ins(d, pr)
    [] pr.pc = "u_now"      -> U_Now(d, pr, clk)
    [] pr.pc = "u_update"   -> U_Update(d, pr)
    [] pr.pc = "u_curprice" -> U_CurPrice(d, pr, tie)
    [] pr.pc = "u_insert"   -> U_Insert(d, pr)
    [] pr.pc = "u_evt"      -> U_Evt(d, pr)
    [] pr.pc = "rp_today"   -> Rp_Today(d, pr, clk)
    [] pr.pc = "rp_exists"  -> Rp_Exists(d, pr)
    [] pr.pc = "rp_prev"    -> Rp_Prev(d, pr, tie)
    [] pr.pc = "rp_ins"     -> Rp_Ins(d, pr)
    [] pr.pc = "s_sel"      -> S_Sel(d, pr)
    [] pr.pc = "s_now"      -> S_Now(d, pr, clk)
    [] pr.pc = "s_update"   -> S_Update(d, pr)
    [] pr.pc = "s_evt"      -> S_Evt(d, pr)
    [] pr.pc = "a_sel"      -> A_Sel(d, pr)
    [] pr.pc = "h_name"     -> H_Name(d, pr)
    [] pr.pc = "h_addr"     -> H_Addr(d, pr)
    [] pr.pc = "h_ins"      -> H_Ins(d, pr)
    [] pr.pc = "h_sale"     -> H_Sale(d, pr)

RECURSIVE Run(_, _, _, _)
\* a handler executed to its return or its exception
Run(d, pr, clk, tie) ==
  IF pr.pc = "done" THEN Out(d, pr)
  ELSE LET s == Step(d, pr, clk, tie) IN Run(s.db, s.pr, clk, tie)

----------------------------------------------------------------------------
\* The calls and their inputs

UpsertCall(mls, name, address, status, price, date, fault) ==
  NewCall("upsert", "u_check", mls, name, address, status, price, date,
          Absent, fault)

SetStatusCall(mls, status, sale_price, sale_date, fault) ==
  NewCall("setStatus", "s_sel", mls, Absent, Absent, status, sale_price,
          sale_date, Absent, fault)

RecordPriceCall(mls, price, date, hint, fault) ==
  NewCall("recordPrice", "a_sel", mls, Absent, Absent, Absent, price, date,
          hint, fault)

CreateSaleCall(name, address, price, date, fault) ==
  NewCall("createSale", "h_name", Absent, name, address, Absent, price, date,
          Absent, fault)

\* room left in the bounded tables
Room(d) ==
  /\ Cardinality(d.tracking_event) < MaxEvents
  /\ Cardinality(d.building) < MaxBuildings
  /\ Cardinality(d.price_history) < MaxPriceRows
  /\ Cardinality(d.historical_sale) < MaxSales

EmptyStore ==
  [building |-> {}, listing |-> {}, price_history |-> {},
   tracking_event |-> {}, historical_sale |-> {}, listing_photo |-> {}]

\* PhotoService.__init__ creates the two roots, empty
EmptyStorage == [listings |-> {}, historical_sales |-> {}]

Init ==
  /\ db = EmptyStore
  /\ clock = 0
  /\ tiePolicy \in {"rowid_asc", "rowid_desc"}
  /\ procs = [p \in Procs |-> NoCall]
  /\ fs = EmptyStorage

\* the store a call leaves when it runs alone, from entry to return
After(pr0) == Run(db, pr0, clock, tiePolicy).db

\* time passes between calls
Tick ==
  /\ clock < MaxDay
  /\ clock' = clock + 1
  /\ UNCHANGED <<db, tiePolicy, procs, fs>>

----------------------------------------------------------------------------
\* Spec: the price ledger under sequential calls.  Records carry no
\* building; prices, dates and sale prices vary.  Every listing is
\* upserted; sales and direct price entries go to the tracked listing, so
\* that the other listing's entries test the listing_id in each query.

Tracked == {"M1"}

LedgerUpserts ==
  {UpsertCall(mls, Absent, Absent, Absent, price, None, 0) :
     mls \in MlsNumbers \cup {Absent}, price \in Prices \cup {None}}

LedgerStatusCalls ==
  {SetStatusCall(mls, "Sold", sale_price, sale_date, 0) :
     mls \in Tracked, sale_price \in {None, 1}, sale_date \in {None}}

\* an entry is dated today (no date given) or on the last day, which is
\* ahead of the clock until the clock reaches it
RecordPriceCalls ==
  {RecordPriceCall(mls, price, date, hint, 0) :
     mls \in Tracked, price \in Prices \ {0}, date \in {None, MaxDay},
     hint \in Hints}

UpsertListing ==
  \E c \in LedgerUpserts :
    /\ Room(db)
    /\ db' = After(c)
    /\ UNCHANGED <<clock, tiePolicy, procs, fs>>

SetStatus ==
  \E c \in LedgerStatusCalls :
    /\ Room(db)
    /\ db' = After(c)
    /\ UNCHANGED <<clock, tiePolicy, procs, fs>>

RecordPrice ==
  \E c \in RecordPriceCalls :
    /\ Room(db)
    /\ db' = After(c)
    /\ UNCHANGED <<clock, tiePolicy, procs, fs>>

Next == UpsertListing \/ SetStatus \/ RecordPrice \/ Tick

Spec == Init /\ [][Next]_vars

----------------------------------------------------------------------------
\* SpecBuilding: building resolution under sequential calls.  Names and
\* addresses are drawn from the same strings, present or absent.

BuildingUpserts ==
  {UpsertCall(mls, name, address, Absent, None, None, 0) :
     mls \in MlsNumbers, name \in Labels \cup {Absent},
     address \in Labels \cup {Absent}}

CreateSaleCalls ==
  {CreateSaleCall(name, address, 1, 0, 0) :
     name \in Labels, address \in Labels \cup {Absent}}

UpsertWithBuilding ==
  \E c \in BuildingUpserts :
    /\ Room(db)
    /\ db' = After(c)
    /\ UNCHANGED <<clock, tiePolicy, procs, fs>>

CreateSale ==
  \E c \in CreateSaleCalls :
    /\ Room(db)
    /\ db' = After(c)
    /\ UNCHANGED <<clock, tiePolicy, procs, fs>>

NextBuilding == UpsertWithBuilding \/ CreateSale

SpecBuilding == Init /\ [][NextBuilding]_vars

----------------------------------------------------------------------------
\* SpecStatus: status and activity under sequential calls.

StatusUpserts ==
  {UpsertCall(mls, Absent, Absent, status, price, None, 0) :
     mls \in MlsNumbers, status \in Statuses \cup {Absent},
     price \in {None, 1}}

StatusCalls ==
  {SetStatusCall(mls, status, sale_price, None, 0) :
     mls \in MlsNumbers, status \in Statuses, sale_price \in {None, 1}}

UpsertWithStatus ==
  \E c \in StatusUpserts :
    /\ Room(db)
    /\ db' = After(c)
    /\ UNCHANGED <<clock, tiePolicy, procs, fs>>

UpdateStatus ==
  \E c \in StatusCalls :
    /\ Room(db)
    /\ db' = After(c)
    /\ UNCHANGED <<clock, tiePolicy, procs, fs>>

NextStatus == UpsertWithStatus \/ UpdateStatus \/ Tick

SpecStatus == Init /\ [][NextStatus]_vars

----------------------------------------------------------------------------
\* SpecFault: sequential calls against a store that may raise on one of a
\* call's write statements.  Each statement was committed on its own
\* connection (database.py execute_insert / execute_update), so the store a
\* failed call leaves is the store after its last successful statement.

\* an upsert of a new listing makes up to four writes: building, listing,
\* price entry, event
Faults == 0..4

FaultUpserts ==
  {UpsertCall(mls, name, Absent, Absent, price, None, fault) :
     mls \in Tracked, name \in {Absent, "X"}, price \in {None, 1, 2},
     fault \in Faults}

FaultStatusCalls ==
  {SetStatusCall(mls, "Sold", sale_price, None, fault) :
     mls \in Tracked, sale_price \in {None, 1}, fault \in Faults}

UpsertUnderFaults ==
  \E c \in FaultUpserts :
    /\ Room(db)
    /\ db' = After(c)
    /\ UNCHANGED <<clock, tiePolicy, procs, fs>>

SetStatusUnderFaults ==
  \E c \in FaultStatusCalls :
    /\ Room(db)
    /\ db' = After(c)
    /\ UNCHANGED <<clock, tiePolicy, procs, fs>>

NextFault == UpsertUnderFaults \/ SetStatusUnderFaults

SpecFault == Init /\ [][NextFault]_vars

----------------------------------------------------------------------------
\* SpecConc: two workers serve one call each on the empty store.  A worker
\* takes a call and executes it one store statement at a time; the
\* statements of the two workers interleave in any order, and a worker may
\* also start only after the other has returned.

ConcUpserts ==
  {UpsertCall(mls, name, Absent, Absent, price, None, 0) :
     mls \in MlsNumbers, name \in {Absent, "X"}, price \in {None, 1}}

ConcSales ==
  {CreateSaleCall(name, address, 1, 0, 0) :
     name \in {"X"}, address \in {Absent, "Y"}}

Running(p) == procs[p].pc \notin {"idle", "done"}

BeginUpsert(p) ==
  \E c \in ConcUpserts :
    /\ procs[p].pc = "idle"
    /\ procs' = [procs EXCEPT ![p] = c]
    /\ UNCHANGED <<db, clock, tiePolicy, fs>>

BeginSale(p) ==
  \E c \in ConcSales :
    /\ procs[p].pc = "idle"
    /\ procs' = [procs EXCEPT ![p] = c]
    /\ UNCHANGED <<db, clock, tiePolicy, fs>>

Statement(p) ==
  /\ Running(p)
  /\ LET s == Step(db, procs[p], clock, tiePolicy)
     IN /\ db' = s.db
        /\ procs' = [procs EXCEPT ![p] = s.pr]
  /\ UNCHANGED <<clock, tiePolicy, fs>>

NextConc == \E p \in Procs : BeginUpsert(p) \/ BeginSale(p) \/ Statement(p)

SpecConc == Init /\ [][NextConc]_vars

----------------------------------------------------------------------------
\* SpecClock: one listing is discovered, then two workers serve one call
\* each on it (an upsert or a status change, without building or price)
\* while time passes.  Each call reads datetime.now() in its own statement
\* (line 137, line 433) and writes the value in a later one.

ClockUpserts == {UpsertCall(mls, Absent, Absent, Absent, None, None, 0) :
                   mls \in Tracked}

ClockStatusCalls ==
  {SetStatusCall(mls, status, None, None, 0) :
     mls \in Tracked, status \in {"Active", "Sold"}}

Discover ==
  \E c \in ClockUpserts :
    /\ listing = {}
    /\ db' = After(c)
    /\ UNCHANGED <<clock, tiePolicy, procs, fs>>

BeginTouch(p) ==
  \E c \in ClockUpserts :
    /\ listing # {}
    /\ procs[p].pc = "idle"
    /\ procs' = [procs EXCEPT ![p] = c]
    /\ UNCHANGED <<db, clock, tiePolicy, fs>>

BeginStatus(p) ==
  \E c \in ClockStatusCalls :
    /\ listing # {}
    /\ procs[p].pc = "idle"
    /\ procs' = [procs EXCEPT ![p] = c]
    /\ UNCHANGED <<db, clock, tiePolicy, fs>>

NextClock ==
  \/ Discover
  \/ Tick
  \/ \E p \in Procs : BeginTouch(p) \/ BeginStatus(p) \/ Statement(p)

SpecClock == Init /\ [][NextClock]_vars

----------------------------------------------------------------------------
\* The photo storage and ListingService.delete_listing

MaxFiles == 2

\* an entry under an artifact root: a directory with its files and
\* subdirectories, or a plain file
Dir(name, files, subdirs) ==
  [name |-> name, is_dir |-> TRUE, files |-> files, subdirs |-> subdirs]

PlainFile(name) ==
  [name |-> name, is_dir |-> FALSE, files |-> 0, subdirs |-> 0]

\* _get_listing_dir: the characters of the MLS number that are alphanumeric
\* or '-' or '_'; of the MLS numbers of the model "M 1" and "M 2" hold
\* another
SafeMls(mls) ==
  CASE mls = "M 1" -> "M1"
    [] mls = "M 2" -> "M2"
    [] OTHER -> mls

EntryNamed(root, name) == {e \in root : e.name = name}

\* download_listing_photos: mkdir(exist_ok) and one file per photo saved;
\* file k overwrites the file k of an earlier download
SavedListingPhotos(f, mls, n) ==
  LET name == SafeMls(mls)
      old == EntryNamed(f.listings, name)
      kept == IF old = {} THEN Dir(name, 0, 0) ELSE CHOOSE e \in old : TRUE
  IN [f EXCEPT !.listings =
        (@ \ old) \cup {[kept EXCEPT !.files = IF @ > n THEN @ ELSE n]}]

\* purge_listing_photos: unlink every file of the directory, then rmdir,
\* which raises when a subdirectory is left
PurgeListingPhotos(f, mls) ==
  LET here == EntryNamed(f.listings, SafeMls(mls))
      e == CHOOSE x \in here : TRUE
  IN IF here = {} THEN [fs |-> f, raised |-> FALSE, deleted |-> 0]
     ELSE IF ~e.is_dir THEN [fs |-> f, raised |-> TRUE, deleted |-> 0]
     ELSE IF e.subdirs > 0
       THEN [fs |-> [f EXCEPT !.listings =
                       (@ \ here) \cup {[e EXCEPT !.files = 0]}],
             raised |-> TRUE, deleted |-> e.files]
       ELSE [fs |-> [f EXCEPT !.listings = @ \ here],
             raised |-> FALSE, deleted |-> e.files]

\* the rows a listing owns go with it
CascadeFrom(d, lid) ==
  [d EXCEPT !.price_history = {r \in @ : r.listing_id # lid},
            !.tracking_event = {r \in @ : r.listing_id # lid},
            !.listing_photo = {r \in @ : r.listing_id # lid}]

\* the listing row deleted alone
ExecuteDeleteListing_RowOnly(d, lid) ==
  [d EXCEPT !.listing = {l \in @ : l.id # lid}]

\* DELETE FROM listing WHERE id = ?
ExecuteDeleteListing(d, lid) ==
  CascadeFrom([d EXCEPT !.listing = {l \in @ : l.id # lid}], lid)

DeleteResult(d, f, outcome, res) ==
  [db |-> d, fs |-> f, outcome |-> outcome, result |-> res]

\* the photos purged before the listing is looked up
delete_listing_PurgeFirst(d, f, mls, purge_photos) ==
  LET found == SelectListingByMls(d, mls)
      purged == IF purge_photos THEN PurgeListingPhotos(f, mls)
                ELSE [fs |-> f, raised |-> FALSE, deleted |-> 0]
  IN IF purged.raised THEN DeleteResult(d, purged.fs, "OSError", FALSE)
     ELSE IF found = None THEN DeleteResult(d, purged.fs, "ok", FALSE)
     ELSE DeleteResult(ExecuteDeleteListing(d, found), purged.fs, "ok", TRUE)

delete_listing(d, f, mls, purge_photos) ==
  LET found == SelectListingByMls(d, mls)
      purged == IF purge_photos THEN PurgeListingPhotos(f, mls)
                ELSE [fs |-> f, raised |-> FALSE, deleted |-> 0]
  IN IF found = None THEN DeleteResult(d, f, "ok", FALSE)
     ELSE IF purged.raised THEN DeleteResult(d, purged.fs, "OSError", FALSE)
     ELSE DeleteResult(ExecuteDeleteListing(d, found), purged.fs, "ok", TRUE)

\* get_listing: None when no listing carries the MLS number
get_listing(d, mls) ==
  LET rows == {l \in d.listing : l.mls_number = mls}
  IN IF rows = {} THEN None ELSE FirstId(rows)

----------------------------------------------------------------------------
\* SpecDelete: listings with their owned rows and photos come and go under
\* sequential calls.

DeleteUpserts ==
  {UpsertCall(mls, name, Absent, Absent, price, None, 0) :
     mls \in MlsNumbers, name \in {Absent, "X"}, price \in {None, 1}}

DeleteStatusCalls ==
  {SetStatusCall(mls, "Sold", 2, None, 0) : mls \in MlsNumbers}

\* row ids grow as rows are deleted and inserted; calls are made while
\* every id is below MaxId
MaxId == 3

IdsInRange(d) ==
  \A r \in d.listing \cup d.price_history \cup d.tracking_event
           \cup d.listing_photo : r.id < MaxId

UpsertOwned ==
  \E c \in DeleteUpserts :
    /\ Room(db)
    /\ IdsInRange(db)
    /\ db' = After(c)
    /\ UNCHANGED <<clock, tiePolicy, procs, fs>>

SellOwned ==
  \E c \in DeleteStatusCalls :
    /\ Room(db)
    /\ IdsInRange(db)
    /\ db' = After(c)
    /\ UNCHANGED <<clock, tiePolicy, procs, fs>>

\* the photo collaborator stores a listing's photos and their rows
AttachPhotos ==
  \E l \in listing, n \in 1..MaxFiles :
    /\ IdsInRange(db)
    /\ \A r \in listing_photo : r.listing_id # l.id
    /\ db' = [db EXCEPT !.listing_photo =
                @ \cup {[id |-> NewId(@), listing_id |-> l.id]}]
    /\ fs' = SavedListingPhotos(fs, l.mls_number, n)
    /\ UNCHANGED <<clock, tiePolicy, procs>>

DeleteListing ==
  \E mls \in MlsNumbers, purge_photos \in BOOLEAN :
    LET r == delete_listing(db, fs, mls, purge_photos)
    IN /\ db' = r.db
       /\ fs' = r.fs
       /\ UNCHANGED <<clock, tiePolicy, procs>>

NextDelete == UpsertOwned \/ SellOwned \/ AttachPhotos \/ DeleteListing

SpecDelete == Init /\ [][NextDelete]_vars

\* SpecLifecycle: the same calls with no photos stored
NextLifecycle == UpsertOwned \/ SellOwned \/ DeleteListing

SpecLifecycle == Init /\ [][NextLifecycle]_vars

----------------------------------------------------------------------------
\* HistoricalSaleService.import_csv

MaxRows == 3

\* csv.DictReader gives None for a column the line has no cell for
NoCell == "<None>"

\* a line of the input as the reader delivers it: `readable` is false for
\* a line on which the reader raises csv.Error (a carriage return inside an
\* unquoted field, a field over the size limit); `fault` is the write
\* statement the store raises on while the line's sale is created
CsvRow(readable, name, address, price, date, fault) ==
  [readable |-> readable, building_name |-> name, address |-> address,
   sale_price |-> price, sale_date |-> date, fault |-> fault]

GoodRow == CsvRow(TRUE, "X", Absent, "1", "2024-01-01", 0)
OtherFormatsRow == CsvRow(TRUE, " Y", Absent, "$2", "01/02/2024", 0)
BadPriceRow == CsvRow(TRUE, "X", Absent, "abc", "2024-01-01", 0)
BadDateRow == CsvRow(TRUE, "X", Absent, "1", "soon", 0)
ShortRow == CsvRow(TRUE, "X", NoCell, "1", "2024-01-01", 0)
UnreadableRow == CsvRow(FALSE, Absent, Absent, Absent, Absent, 0)
StoreFailsRow == CsvRow(TRUE, " Y", Absent, "$2", "01/02/2024", 2)

ImportRows ==
  {GoodRow, OtherFormatsRow, BadPriceRow, BadDateRow, ShortRow,
   UnreadableRow, StoreFailsRow}

Batches == UNION {[1..n -> ImportRows] : n \in 0..MaxRows}

\* required = {"building_name", "sale_price", "sale_date"}
RequiredColumns == {"building_name", "sale_price", "sale_date"}

\* reader.fieldnames: the cells of the first line; none for an empty input
Headers ==
  {{}, {"X", "1"}, {"building_name", "sale_price"}, RequiredColumns,
   RequiredColumns \cup {"address"}}

\* .replace(",", "").replace("$", "")
Unformatted(text) ==
  CASE text = "$2" -> "2"
    [] OTHER -> text

\* Decimal(price_str); None stands for InvalidOperation
DecimalOf(text) ==
  CASE text = "1" -> 1
    [] text = "2" -> 2
    [] OTHER -> None

ParsePrice(text) == DecimalOf(Unformatted(text))

\* strptime over "%Y-%m-%d", "%m/%d/%Y", "%d/%m/%Y", "%m-%d-%Y" in this
\* order, the first match wins; day 0 is 2024-01-01; None when none matches
ParseDate(text) ==
  CASE text = "2024-01-01" -> 0
    [] text = "01/02/2024" -> 1
    [] OTHER -> None

\* str.strip()
Strip(text) ==
  CASE text = " Y" -> "Y"
    [] OTHER -> text

\* row[col] for a column of the header, row.get(col, "") otherwise
Cell(header, row, col) == IF col \in header THEN row[col] ELSE Absent

RowSkipped(d, error) == [db |-> d, status |-> "skipped", error |-> error]

\* lines 150-204: the body of the loop for one line
ImportRow(d, header, row) ==
  LET sale_price == ParsePrice(row.sale_price)
      sale_date == ParseDate(row.sale_date)
      address == Cell(header, row, "address")
  IN IF row.sale_price = NoCell THEN RowSkipped(d, "AttributeError")
     ELSE IF sale_price = None THEN RowSkipped(d, "Invalid sale_price")
     ELSE IF row.sale_date = NoCell THEN RowSkipped(d, "TypeError")
     ELSE IF sale_date = None THEN RowSkipped(d, "Invalid date format")
     ELSE IF NoCell \in {row.building_name, address}
       THEN RowSkipped(d, "AttributeError")
     ELSE LET r == Run(d, CreateSaleCall(Strip(row.building_name),
                                         Strip(address), sale_price,
                                         sale_date, row.fault),
                       clock, tiePolicy)
          IN IF r.pr.outcome = "ok"
               THEN [db |-> r.db, status |-> "imported", error |-> Absent]
               ELSE RowSkipped(r.db, r.pr.outcome)

NoResults ==
  [success |-> TRUE, total_rows |-> 0, imported |-> 0, skipped |-> 0,
   errors |-> <<>>]

Failed(results, error) ==
  [results EXCEPT !.success = FALSE,
                  !.errors = Append(@, [row |-> 0, text |-> error])]

\* lines 147-208: the loop; the reader raises while fetching line i, outside
\* the handler of the loop body
RECURSIVE ReadRows(_, _, _, _, _)
ReadRows(d, header, rows, i, results) ==
  IF i > Len(rows) THEN [db |-> d, results |-> results]
  ELSE IF ~rows[i].readable
    THEN [db |-> d, results |-> Failed(results, "CSV parsing error")]
  ELSE
    LET r == ImportRow(d, header, rows[i])
        counted == [results EXCEPT !.total_rows = @ + 1]
    IN ReadRows(r.db, header, rows, i + 1,
                IF r.status = "imported"
                  THEN [counted EXCEPT !.imported = @ + 1]
                  ELSE [counted EXCEPT
                          !.skipped = @ + 1,
                          !.errors = Append(@, [row |-> i + 1,
                                                text |-> r.error])])

\* lines 113-210
import_csv(d, header, rows) ==
  IF header = {}
    THEN [db |-> d, results |-> Failed(NoResults, "CSV has no headers")]
  ELSE IF RequiredColumns \ header # {}
    THEN [db |-> d,
          results |-> Failed(NoResults, "Missing required columns")]
  ELSE ReadRows(d, header, rows, 1, NoResults)

ValidHeaders == {h \in Headers : RequiredColumns \subseteq h}

\* the inputs: an input without a header line has no line at all
CsvInputs ==
  {[header |-> h, rows |-> b] : h \in ValidHeaders, b \in Batches}
    \cup {[header |-> h, rows |-> <<>>] : h \in Headers \ ValidHeaders}
    \cup {[header |-> h, rows |-> <<GoodRow>>] :
            h \in Headers \ (ValidHeaders \cup {{}})}

ImportBatch ==
  \E input \in CsvInputs :
    /\ Room(db)
    /\ db' = import_csv(db, input.header, input.rows).db
    /\ UNCHANGED <<clock, tiePolicy, procs, fs>>

\* sales are also recorded one at a time, between imports
NextImport == ImportBatch \/ CreateSale

SpecImport == Init /\ [][NextImport]_vars

----------------------------------------------------------------------------
\* PhotoService.purge_orphaned_photos

\* _get_historical_dir: str(sale_id)
SaleDirName(sale_id) == ToString(sale_id)

\* download_historical_sale_photos: mkdir(exist_ok) and one file per photo
SavedSalePhotos(f, sale_id, n) ==
  LET name == SaleDirName(sale_id)
      old == EntryNamed(f.historical_sales, name)
      kept == IF old = {} THEN Dir(name, 0, 0) ELSE CHOOSE e \in old : TRUE
  IN [f EXCEPT !.historical_sales =
        (@ \ old) \cup {[kept EXCEPT !.files = IF @ > n THEN @ ELSE n]}]

\* {row["mls_number"] for row in result}
ActiveMls(d) == {l.mls_number : l \in d.listing}

\* {str(row["id"]) for row in result}
ActiveSaleIds(d) == {ToString(s.id) : s \in d.historical_sale}

\* the first directory only
Orphaned_First(root, live) ==
  LET all == {e \in root : e.is_dir /\ e.name \notin live}
  IN IF all = {} THEN {} ELSE {CHOOSE e \in all : TRUE}

\* the entries with `d.is_dir() and d.name not in live`
Orphaned(root, live) == {e \in root : e.is_dir /\ e.name \notin live}

\* the files alone
EntryCount_FilesOnly(e) == e.files

\* len(list(dir.iterdir())): files and subdirectories alike
EntryCount(e) == e.files + e.subdirs

RECURSIVE CountEntries(_)
CountEntries(dirs) ==
  IF dirs = {} THEN 0
  ELSE LET e == CHOOSE x \in dirs : TRUE
       IN EntryCount(e) + CountEntries(dirs \ {e})

\* the run given up at the first query that raises
purge_orphaned_photos_Aborting(d, f, mls_query_fails, sale_query_fails) ==
  LET mls_dirs == IF mls_query_fails THEN {}
                  ELSE Orphaned(f.listings, ActiveMls(d))
      sale_dirs == IF mls_query_fails \/ sale_query_fails THEN {}
                   ELSE Orphaned(f.historical_sales, ActiveSaleIds(d))
  IN [fs |-> [listings |-> f.listings \ mls_dirs,
              historical_sales |-> f.historical_sales \ sale_dirs],
      stats |->
        [listings_deleted |-> CountEntries(mls_dirs),
         historical_deleted |-> CountEntries(sale_dirs),
         errors |->
           IF mls_query_fails
             THEN <<"Could not fetch active listings">>
             ELSE IF sale_query_fails
               THEN <<"Could not fetch historical sales">> ELSE <<>>]]

\* lines 188-227; a query that raises leaves its live set empty
purge_orphaned_photos(d, f, mls_query_fails, sale_query_fails) ==
  LET active_mls == IF mls_query_fails THEN {} ELSE ActiveMls(d)
      active_sale_ids == IF sale_query_fails THEN {} ELSE ActiveSaleIds(d)
      mls_dirs == Orphaned(f.listings, active_mls)
      sale_dirs == Orphaned(f.historical_sales, active_sale_ids)
  IN [fs |-> [listings |-> f.listings \ mls_dirs,
              historical_sales |-> f.historical_sales \ sale_dirs],
      stats |->
        [listings_deleted |-> CountEntries(mls_dirs),
         historical_deleted |-> CountEntries(sale_dirs),
         errors |->
           (IF mls_query_fails
              THEN <<"Could not fetch active listings">> ELSE <<>>)
           \o (IF sale_query_fails
                 THEN <<"Could not fetch historical sales">> ELSE <<>>)]]

----------------------------------------------------------------------------
\* SpecArtifacts: listings and sales come and go, photos are stored for
\* them, other entries appear under the two roots, and the storage is
\* reconciled with the store.

ArtifactMls == {"M1", "M 2"}

ArtifactUpserts ==
  {UpsertCall(mls, Absent, Absent, Absent, None, None, 0) :
     mls \in ArtifactMls}

ArtifactSales == {CreateSaleCall("X", Absent, 1, 0, 0)}

\* what is found under a root besides the directories of the service
StrayEntries == {Dir("old", 1, 1), PlainFile("notes")}

UpsertStored ==
  \E c \in ArtifactUpserts :
    /\ SelectListingByMls(db, c.mls) = None
    /\ Room(db)
    /\ IdsInRange(db)
    /\ db' = After(c)
    /\ UNCHANGED <<clock, tiePolicy, procs, fs>>

RecordSale ==
  \E c \in ArtifactSales :
    /\ Room(db)
    /\ db' = After(c)
    /\ UNCHANGED <<clock, tiePolicy, procs, fs>>

RemoveListing ==
  \E mls \in ArtifactMls :
    LET r == delete_listing(db, fs, mls, FALSE)
    IN /\ r.result = TRUE
       /\ db' = r.db
       /\ fs' = r.fs
       /\ UNCHANGED <<clock, tiePolicy, procs>>

SaveListingPhotos ==
  \E l \in listing, n \in {1, MaxFiles} :
    /\ fs' = SavedListingPhotos(fs, l.mls_number, n)
    /\ UNCHANGED <<db, clock, tiePolicy, procs>>

SaveSalePhotos ==
  \E s \in historical_sale, n \in {1, MaxFiles} :
    /\ fs' = SavedSalePhotos(fs, s.id, n)
    /\ UNCHANGED <<db, clock, tiePolicy, procs>>

StrayListingEntry ==
  \E e \in StrayEntries :
    /\ EntryNamed(fs.listings, e.name) = {}
    /\ fs' = [fs EXCEPT !.listings = @ \cup {e}]
    /\ UNCHANGED <<db, clock, tiePolicy, procs>>

StraySaleEntry ==
  \E e \in StrayEntries :
    /\ EntryNamed(fs.historical_sales, e.name) = {}
    /\ fs' = [fs EXCEPT !.historical_sales = @ \cup {e}]
    /\ UNCHANGED <<db, clock, tiePolicy, procs>>

Reconcile ==
  \E mls_query_fails \in BOOLEAN, sale_query_fails \in BOOLEAN :
    /\ fs' = purge_orphaned_photos(db, fs, mls_query_fails,
                                   sale_query_fails).fs
    /\ UNCHANGED <<db, clock, tiePolicy, procs>>

NextArtifacts ==
  \/ UpsertStored
  \/ RecordSale
  \/ RemoveListing
  \/ SaveListingPhotos
  \/ SaveSalePhotos
  \/ StrayListingEntry
  \/ StraySaleEntry
  \/ Reconcile

SpecArtifacts == Init /\ [][NextArtifacts]_vars

----------------------------------------------------------------------------
\* Properties.  A property of a call is stated over every call that can be
\* made in the current state: RunCall(c) is the store and the return value
\* the call c produces when it runs next.

RunCall(c) == Run(db, c, clock, tiePolicy)

EntriesOf(d, lid) == {r \in d.price_history : r.listing_id = lid}

SameDayAndPrice(r, q) ==
  /\ r.listing_id = q.listing_id
  /\ r.recorded_date = q.recorded_date
  /\ r.price = q.price

NoDuplicateEntries == \A r, q \in price_history : SameDayAndPrice(r, q) => r = q

RecordPriceIsIdempotent ==
  \A c \in RecordPriceCalls :
    LET date == IF c.date = None THEN clock ELSE c.date
        same == {r \in price_history :
                   /\ \E l \in listing : l.mls_number = c.mls /\ l.id = r.listing_id
                   /\ r.recorded_date = date
                   /\ r.price = c.price}
        r == RunCall(c)
    IN same # {} => /\ r.pr.outcome = "ok"
                    /\ r.pr.rp_id \in {q.id : q \in same}
                    /\ r.db = db

\* C1: no two price-history entries of a listing share recorded date and
\* price, and a recordPrice whose (listing, date, price) is already stored
\* returns the stored entry's id and inserts nothing.
C1_NoDuplicatePricePoints == NoDuplicateEntries /\ RecordPriceIsIdempotent

\* a listing holds two entries and a recordPrice call meets one of them
C1_Witness ==
  \E c \in RecordPriceCalls :
    LET r == RunCall(c)
    IN /\ r.pr.outcome = "ok"
       /\ ~r.pr.rp_inserted
       /\ Cardinality(EntriesOf(db, r.pr.rp_lid)) >= 2

\* C2: an upsert of an existing MLS number with the price of the upsert of
\* that MLS number just before it returns priceRecorded = false and leaves
\* the listing's number of price-history entries unchanged.
C2_SamePriceNotRecorded ==
  \A c1, c2 \in LedgerUpserts :
    (c1.mls = c2.mls /\ c1.price = c2.price) =>
      LET r1 == RunCall(c1)
          r2 == Run(r1.db, c2, clock, tiePolicy)
      IN r1.pr.outcome = "ok" =>
           /\ r2.pr.outcome = "ok"
           /\ ~r2.pr.is_new
           /\ ~r2.pr.price_recorded
           /\ Cardinality(EntriesOf(r2.db, r2.pr.listing_id))
                = Cardinality(EntriesOf(r1.db, r1.pr.listing_id))

\* C3: an upsertListing or setStatus call that fails on one of its write
\* statements leaves the store as it was before the call.
C3_FailedCallLeavesNoWrites ==
  \A c \in FaultUpserts \cup FaultStatusCalls :
    LET r == RunCall(c)
    IN r.pr.outcome = "StoreError" => r.db = db

\* C4: no two building rows have the same name.
C4_OneBuildingPerName == \A a, b \in building : a.name = b.name => a = b

BothReturned(p, q) ==
  /\ p # q
  /\ procs[p].pc = "done"
  /\ procs[q].pc = "done"

\* the call of worker q met the row worker p created: it updated that row
\* or the store's uniqueness error reached its caller
UpdatedOrConflict(p, q) ==
  \/ procs[q].outcome = "IntegrityError"
  \/ /\ procs[q].outcome = "ok"
     /\ ~procs[q].is_new
     /\ procs[q].listing_id = procs[p].listing_id

\* C5: at any moment of two concurrent upserts no two listing rows carry
\* the same MLS number, and when both upserts of one MLS number have
\* returned one of them created the row and the other updated that row or
\* got the uniqueness conflict.
C5_OneListingPerMls ==
  /\ \A a, b \in listing : a.mls_number = b.mls_number => a = b
  /\ \A p, q \in Procs :
       ( /\ BothReturned(p, q)
         /\ procs[p].op = "upsert"
         /\ procs[q].op = "upsert"
         /\ procs[p].mls = procs[q].mls ) =>
       \E w \in {p, q} :
         /\ procs[w].outcome = "ok"
         /\ procs[w].is_new
         /\ UpdatedOrConflict(w, CHOOSE l \in {p, q} : l # w)

\* both upserts of one MLS number read "no such listing" before either
\* inserted; one has returned a created listing, the other the conflict
C5_Witness ==
  \E p, q \in Procs :
    /\ BothReturned(p, q)
    /\ procs[p].mls = procs[q].mls
    /\ procs[p].is_new
    /\ procs[p].outcome = "ok"
    /\ procs[q].outcome = "IntegrityError"
    /\ Cardinality(listing) = 1

BuildingRow(id) == CHOOSE b \in building : b.id = id

\* C6: two concurrent calls never both create a building row of the same
\* name.
C6_OneCreatorPerName ==
  \A p, q \in Procs :
    (p # q /\ procs[p].bld_created /\ procs[q].bld_created) =>
      BuildingRow(procs[p].building_id).name
        # BuildingRow(procs[q].building_id).name

Ids(rows) == {r.id : r \in rows}

NamedLike(d, c) == {b \in d.building : c.name # Absent /\ b.name = c.name}

AddressedLike(d, c) ==
  {b \in d.building : c.address # Absent /\ b.address = c.address}

\* the lookup order of resolveBuilding, for every upsert that can be made
LookupOrder ==
  \A c \in BuildingUpserts :
    LET r == RunCall(c)
        byName == NamedLike(db, c)
        byAddress == AddressedLike(db, c)
    IN /\ r.pr.outcome = "ok"
       /\ byName # {} => r.pr.building_id \in Ids(byName)
       /\ (byName = {} /\ byAddress # {}) =>
            r.pr.building_id \in Ids(byAddress)
       /\ r.pr.bld_created =>
            /\ byName = {}
            /\ byAddress = {}
            /\ r.pr.building_id \notin Ids(building)
       /\ ~r.pr.bld_created => r.db.building = building
       /\ ( /\ byName = {}
            /\ byAddress = {}
            /\ (c.name # Absent \/ c.address # Absent) ) => r.pr.bld_created

\* an upsert with a name no building has and the address of an existing
\* building gets that building
NewNameExistingAddress ==
  \A c \in BuildingUpserts, b \in building :
    (c.name # Absent /\ NamedLike(db, c) = {} /\ b.address = c.address) =>
      RunCall(c).pr.building_id \in Ids(AddressedLike(db, c))

\* C7: resolveBuilding returns a building of the given name when one
\* exists, else a building of the given address when one exists, and
\* creates a building only when neither exists; an upsert with a new name
\* and an existing building's address gets that building; and two upserts
\* with the same name and different addresses get the same building
\* provided a building of that name exists once the first has returned.
C7_NameThenAddressThenCreate ==
  /\ LookupOrder
  /\ NewNameExistingAddress
  /\ \A c1, c2 \in BuildingUpserts :
       (c1.name # Absent /\ c1.name = c2.name /\ c1.address # c2.address) =>
         LET r1 == RunCall(c1)
             r2 == Run(r1.db, c2, clock, tiePolicy)
         IN NamedLike(r1.db, c1) # {} =>
              r2.pr.building_id = r1.pr.building_id

\* C7 as stated: any two upserts with the same name and different
\* addresses get the same building.
C7_SameNameSameBuilding ==
  /\ LookupOrder
  /\ NewNameExistingAddress
  /\ \A c1, c2 \in BuildingUpserts :
       (c1.name # Absent /\ c1.name = c2.name /\ c1.address # c2.address) =>
         LET r1 == RunCall(c1)
             r2 == Run(r1.db, c2, clock, tiePolicy)
         IN r2.pr.building_id = r1.pr.building_id

\* a building is stored whose address is given with another name: the
\* upsert resolves by address, and a same-name upsert after it by name
C7_Witness ==
  \E c \in BuildingUpserts :
    /\ c.name # Absent
    /\ NamedLike(db, c) = {}
    /\ AddressedLike(db, c) # {}
    /\ \E b \in building : \E o \in BuildingUpserts :
         o.name = b.name /\ o.address # b.address /\ o.address # Absent

\* the kind the ledger must store for a price against a prior price
KindAgainst(price, prior_price) ==
  IF price < prior_price THEN "Price Drop"
  ELSE IF price > prior_price THEN "Price Increase"
  ELSE "Price Change"

\* the entry a call has just inserted
InsertedEntry(r) == CHOOSE row \in r.db.price_history : row.id = r.pr.rp_id

\* C8: an entry inserted with hint "Price Change" for a listing that has
\* entries is stored as "Price Drop", "Price Increase" or "Price Change"
\* as its price is below, above or equal to the price of a most recent
\* entry by recorded date; with any other hint, or with no prior entry,
\* the stored kind is the hint.
C8_StoredKind ==
  \A c \in RecordPriceCalls \cup LedgerUpserts :
    LET r == RunCall(c)
        prior == LatestRows(db, r.pr.rp_lid)
        hint == IF c.op = "recordPrice" THEN c.hint
                ELSE IF r.pr.is_new THEN "Initial" ELSE "Price Change"
    IN r.pr.rp_inserted =>
         /\ r.db.price_history = price_history \cup {InsertedEntry(r)}
         /\ InsertedEntry(r) \notin price_history
         /\ InsertedEntry(r).price = c.price
         /\ IF hint = "Price Change" /\ prior # {}
              THEN \E q \in prior :
                     InsertedEntry(r).event_type
                       = KindAgainst(c.price, q.price)
              ELSE InsertedEntry(r).event_type = hint

\* the ledger holds a reclassified entry, and a "Price Change" entry of
\* the opposite direction can be recorded after it
C8_Witness ==
  /\ \E row \in price_history : row.event_type = "Price Drop"
  /\ \E c \in RecordPriceCalls :
       /\ c.hint = "Price Change"
       /\ RunCall(c).pr.rp_inserted
       /\ RunCall(c).pr.rp_kind = "Price Increase"

\* C9: every listing is inactive exactly when its status is Sold, Expired
\* or Cancelled.
C9_ActiveUnlessTerminal ==
  \A l \in listing :
    l.is_active = (l.status \notin {"Sold", "Expired", "Cancelled"})

\* C10: a setStatus call on an existing listing returns true and leaves
\* the listing with the new status, inactive exactly when the new status
\* is Sold, Expired or Cancelled, whatever its status was.
C10_SetStatusApplies ==
  \A c \in StatusCalls :
    (\E l \in listing : l.mls_number = c.mls) =>
      LET r == RunCall(c)
      IN /\ r.pr.outcome = "ok"
         /\ r.pr.result = TRUE
         /\ \A l \in r.db.listing :
              l.mls_number = c.mls =>
                /\ l.status = c.status
                /\ l.is_active
                     = (c.status \notin {"Sold", "Expired", "Cancelled"})

\* a listing was sold by setStatus: it is inactive, its sale is in the
\* ledger, and setStatus calls of every status can follow
C10_Witness ==
  \E l \in listing :
    /\ l.status = "Sold"
    /\ ~l.is_active
    /\ \E e \in tracking_event :
         e.listing_id = l.id /\ e.event_type = "StatusChange"
    /\ \E row \in price_history :
         row.listing_id = l.id /\ row.event_type = "Sold"

\* C11: after setStatus(mls, "Sold", salePrice, saleDate) on an existing
\* listing with a sale price, the listing's price history holds an entry
\* of kind "Sold" with that price and that date (today when no date is
\* given), whatever entries it held before.
C11_SoldEntryRecorded ==
  \A c \in LedgerStatusCalls :
    \A l \in listing :
      (l.mls_number = c.mls /\ c.price # None) =>
        LET r == RunCall(c)
            date == IF c.date = None THEN clock ELSE c.date
        IN \E row \in r.db.price_history :
             /\ row.listing_id = l.id
             /\ row.event_type = "Sold"
             /\ row.price = c.price
             /\ row.recorded_date = date

Unlisted(mls) == \A l \in listing : l.mls_number # mls

\* C12: setStatus and deleteListing for an MLS number that has no listing
\* return false and leave every table and the photo storage as they were.
C12_MissingListingUntouched ==
  \A mls \in MlsNumbers :
    Unlisted(mls) =>
      \A status \in Statuses, sale_price \in {None, 1}, purge \in BOOLEAN :
        LET s == RunCall(SetStatusCall(mls, status, sale_price, None, 0))
            r == delete_listing(db, fs, mls, purge)
        IN /\ s.pr.outcome = "ok"
           /\ s.pr.result = FALSE
           /\ s.db = db
           /\ r.outcome = "ok"
           /\ r.result = FALSE
           /\ r.db = db
           /\ r.fs = fs

\* an MLS number has no listing any more while its photos are still
\* stored and another listing exists
C12_Witness ==
  \E mls \in MlsNumbers :
    /\ Unlisted(mls)
    /\ EntryNamed(fs.listings, SafeMls(mls)) # {}
    /\ listing # {}
    /\ tracking_event # {}

\* C13: in every step, under any interleaving of upsertListing and
\* setStatus calls on a listing, the listing's stored last_seen_at is not
\* smaller than it was before the step.
C13_LastSeenNeverDecreases ==
  [][\A l \in db.listing : \A m \in db'.listing :
       m.id = l.id => m.last_seen_at >= l.last_seen_at]_vars

\* the rows of a table that reference listing lid
OwnedBy(rows, lid) == {r \in rows : r.listing_id = lid}

\* C14: after deleteListing(mls) returns true there is no listing with
\* that MLS number, no price-history entry, tracking event or listing-photo
\* row references the deleted listing, getListing(mls) reports not-found,
\* and the Building rows are what they were.
C14_DeleteRemovesOwnedRows ==
  \A l \in listing : \A purge \in BOOLEAN :
    LET r == delete_listing(db, fs, l.mls_number, purge)
    IN r.result = TRUE =>
         /\ \A m \in r.db.listing : m.mls_number # l.mls_number
         /\ OwnedBy(r.db.price_history, l.id) = {}
         /\ OwnedBy(r.db.tracking_event, l.id) = {}
         /\ OwnedBy(r.db.listing_photo, l.id) = {}
         /\ get_listing(r.db, l.mls_number) = None
         /\ r.db.building = building

\* a listing in a building has a price entry, an event and a photo row,
\* and deleting it with its photos succeeds
C14_Witness ==
  \E l \in listing :
    /\ l.building_id # None
    /\ OwnedBy(price_history, l.id) # {}
    /\ OwnedBy(tracking_event, l.id) # {}
    /\ OwnedBy(listing_photo, l.id) # {}
    /\ delete_listing(db, fs, l.mls_number, TRUE).result = TRUE

\* records without an MLS number (`not data.get("mls_number")` holds for
\* an absent key and for the empty string alike), with any building
\* name, address and price
UnnumberedUpserts ==
  {UpsertCall(Absent, name, address, Absent, price, None, 0) :
     name \in Labels \cup {Absent}, address \in Labels \cup {Absent},
     price \in Prices \cup {None}}

\* C15: upsertListing without an MLS number fails with a validation error
\* and leaves every table as it was, whatever building name and price the
\* record carries.
C15_UnnumberedRejected ==
  \A c \in UnnumberedUpserts :
    LET r == RunCall(c)
    IN /\ r.pr.outcome = "ValueError"
       /\ r.db = db

\* the store holds a listing, and a record without an MLS number that
\* names a building the store does not hold and carries a price is rejected
C15_Witness ==
  /\ listing # {}
  /\ \E c \in UnnumberedUpserts :
       /\ c.name # Absent
       /\ SelectBuildingByName(db, c.name) = None
       /\ Truthy(c.price)
       /\ RunCall(c).pr.outcome = "ValueError"

\* C16: importBatch on an input whose header is missing or lacks a required
\* column returns success = false, totalRows = 0 and imported = 0 and
\* persists nothing; with the three required columns present success is
\* true whatever lines fail.
C16_HeaderDecidesSuccess ==
  \A input \in CsvInputs :
    LET r == import_csv(db, input.header, input.rows)
    IN IF input.header \in ValidHeaders
         THEN r.results.success = TRUE
         ELSE /\ r.results.success = FALSE
              /\ r.results.total_rows = 0
              /\ r.results.imported = 0
              /\ r.db = db

\* the lines whose price and date parse
Parses(row) ==
  /\ row.readable
  /\ ParsePrice(row.sale_price) # None
  /\ ParseDate(row.sale_date) # None

\* batches in which every line has all its cells and the store does not
\* raise
CompleteBatches ==
  {b \in Batches :
     \A i \in 1..Len(b) : b[i].fault = 0 /\ b[i].address # NoCell}

\* the sale of line `row` among the sales `rows`
SalesOf(d, rows, row) ==
  {s \in rows :
     /\ s.sale_price = ParsePrice(row.sale_price)
     /\ s.sale_date = ParseDate(row.sale_date)
     /\ \E b \in d.building :
          b.id = s.building_id /\ b.name = Strip(row.building_name)}

\* C17: for every batch with a valid header, totalRows = imported +
\* skipped, there is one error string per skipped line, and every line
\* whose price and date parse is persisted as one historical sale, however
\* many other lines fail and wherever they are.
C17_RowsAreIsolated ==
  \A h \in ValidHeaders : \A b \in CompleteBatches :
    LET r == import_csv(db, h, b)
        added == r.db.historical_sale \ historical_sale
        parsed == {i \in 1..Len(b) : Parses(b[i])}
    IN /\ r.results.total_rows = r.results.imported + r.results.skipped
       /\ Len(r.results.errors) = r.results.skipped
       /\ Cardinality(added) = Cardinality(parsed)
       /\ \A i \in parsed : SalesOf(r.db, added, b[i]) # {}

\* C18: a line that is counted as skipped leaves the store as it was
\* before the line was processed; a building created for the line does not
\* remain when the line's sale insert fails.
C18_SkippedRowLeavesNoWrites ==
  \A h \in ValidHeaders : \A row \in ImportRows :
    row.readable =>
      LET r == ImportRow(db, h, row)
      IN r.status = "skipped" => r.db = db

Subdirectories(root) == {e \in root : e.is_dir}

\* the number of entries the directories `dirs` contain
RECURSIVE Contained(_)
Contained(dirs) ==
  IF dirs = {} THEN 0
  ELSE LET e == CHOOSE x \in dirs : TRUE
       IN e.files + e.subdirs + Contained(dirs \ {e})

\* what a run leaves of `before` when the live names are `live`, and what
\* it reports
ReconciledRoot(before, after, deleted, live) ==
  /\ after \subseteq before
  /\ Subdirectories(after) = {e \in Subdirectories(before) : e.name \in live}
  /\ deleted = Contained(Subdirectories(before) \ Subdirectories(after))

C20_SecondRunDeletesNothing ==
  \A mls_query_fails \in BOOLEAN, sale_query_fails \in BOOLEAN :
    LET first == purge_orphaned_photos(db, fs, mls_query_fails,
                                       sale_query_fails)
        second == purge_orphaned_photos(db, first.fs, mls_query_fails,
                                        sale_query_fails)
    IN /\ second.stats.listings_deleted = 0
       /\ second.stats.historical_deleted = 0
       /\ second.fs = first.fs

\* the first run removes two directories with entries under the listing
\* root and one under the sale root, and leaves a directory under each
C20_Witness ==
  LET first == purge_orphaned_photos(db, fs, FALSE, FALSE)
  IN /\ Cardinality(fs.listings \ first.fs.listings) >= 2
     /\ \A e \in fs.listings \ first.fs.listings : e.files > 0
     /\ first.stats.historical_deleted > 0
     /\ Subdirectories(first.fs.listings) # {}
     /\ Subdirectories(first.fs.historical_sales) # {}

\* C21: when the store query for one live set fails, reconcileArtifacts
\* records the failure in errors and still reconciles the other root
\* against its own live set and reports its count.
C21_OtherRootStillReconciled ==
  /\ LET r == purge_orphaned_photos(db, fs, TRUE, FALSE)
     IN /\ r.stats.errors = <<"Could not fetch active listings">>
        /\ ReconciledRoot(fs.historical_sales, r.fs.historical_sales,
                          r.stats.historical_deleted,
                          {SaleDirName(s.id) : s \in historical_sale})
  /\ LET r == purge_orphaned_photos(db, fs, FALSE, TRUE)
     IN /\ r.stats.errors = <<"Could not fetch historical sales">>
        /\ ReconciledRoot(fs.listings, r.fs.listings,
                          r.stats.listings_deleted,
                          {l.mls_number : l \in listing})

\* each root holds a directory of a live entity and a directory with
\* entries that matches none, so that the run after a failed query has
\* something to keep and something to remove under the other root
C21_Witness ==
  /\ \E e \in Subdirectories(fs.listings) :
       e.name \in {l.mls_number : l \in listing}
  /\ \E e \in Subdirectories(fs.historical_sales) :
       e.name \in {SaleDirName(s.id) : s \in historical_sale}
  /\ purge_orphaned_photos(db, fs, TRUE, FALSE).stats.historical_deleted > 0
  /\ purge_orphaned_photos(db, fs, FALSE, TRUE).stats.listings_deleted > 0

\* C22: upsertListing returns isNew = true exactly when no listing with the
\* MLS number existed before the call; under sequential upserts, status
\* changes and deletes there is at most one Listing row per MLS number; and
\* an upsert that follows a delete of its MLS number returns isNew = true.
C22_IsNewIffUnlisted ==
  /\ \A c \in DeleteUpserts :
       LET r == RunCall(c)
       IN /\ r.pr.outcome = "ok"
          /\ r.pr.is_new = Unlisted(c.mls)
          /\ Cardinality({l \in r.db.listing : l.mls_number = c.mls}) = 1
  /\ \A l \in listing : \A m \in listing :
       l.mls_number = m.mls_number => l = m
  /\ \A l \in listing : \A purge \in BOOLEAN : \A c \in DeleteUpserts :
       LET gone == delete_listing(db, fs, l.mls_number, purge)
       IN (gone.result = TRUE /\ c.mls = l.mls_number) =>
            Run(gone.db, c, clock, tiePolicy).pr.is_new = TRUE

\* the only listing is the second one inserted: the first one, which had
\* the other MLS number, was deleted, and the next upsert of that number is
\* new
C22_Witness ==
  \E c \in DeleteUpserts :
    /\ Unlisted(c.mls)
    /\ \E l \in listing : listing = {l} /\ l.id = 2
    /\ RunCall(c).pr.is_new = TRUE

\* records for an MLS number, with every price value or none and with or
\* without a listing date
PricedUpserts ==
  {UpsertCall(mls, Absent, Absent, Absent, price, date, 0) :
     mls \in MlsNumbers, price \in Prices \cup {None},
     date \in Days \cup {None}}

\* C23: an upsertListing of an unseen MLS number with a price, whatever
\* the price value, returns priceRecorded = true and leaves the new listing
\* with exactly one price-history entry, of kind "Initial" and with that
\* price; without a price it returns priceRecorded = false and the listing
\* has no entry.
C23_InitialEntryForEveryPrice ==
  \A c \in PricedUpserts :
    Unlisted(c.mls) =>
      LET r == RunCall(c)
          entries == EntriesOf(r.db, r.pr.listing_id)
      IN IF c.price # None
           THEN /\ r.pr.price_recorded = TRUE
                /\ Cardinality(entries) = 1
                /\ \A e \in entries :
                     e.event_type = "Initial" /\ e.price = c.price
           ELSE /\ r.pr.price_recorded = FALSE
                /\ entries = {}

\* the calls that mutate a listing: upserts, status changes and direct
\* price entries
LoggedCalls ==
  {UpsertCall(mls, Absent, Absent, Absent, price, None, 0) :
     mls \in MlsNumbers, price \in {None, 1}}
  \cup {SetStatusCall(mls, status, sale_price, None, 0) :
          mls \in MlsNumbers, status \in {"Active", "Sold"},
          sale_price \in {None, 1}}

PriceCalls ==
  {RecordPriceCall(mls, price, None, "Price Change", 0) :
     mls \in MlsNumbers, price \in {1, 2}}

\* the event kind the call c owes when it meets the store as it is
EventOwed(c) ==
  IF c.op = "upsert"
    THEN IF Unlisted(c.mls) THEN "Discovered" ELSE "Updated"
    ELSE "StatusChange"

\* C24: an upsert and a setStatus that returns true append exactly one
\* tracking event, for the listing they touch: "Discovered" when the upsert
\* creates, "Updated" when it updates, "StatusChange" for setStatus; and
\* upsertListing, recordPrice and setStatus leave every existing tracking
\* event and price-history entry as it is.
C24_OneEventPerMutation ==
  /\ \A c \in LoggedCalls :
       LET r == RunCall(c)
           added == r.db.tracking_event \ tracking_event
       IN /\ tracking_event \subseteq r.db.tracking_event
          /\ price_history \subseteq r.db.price_history
          /\ (r.pr.outcome = "ok" /\ r.pr.result = TRUE) =>
               /\ Cardinality(added) = 1
               /\ \A e \in added :
                    /\ e.event_type = EventOwed(c)
                    /\ e.listing_id = r.pr.listing_id
                    /\ \E l \in r.db.listing :
                         l.id = e.listing_id /\ l.mls_number = c.mls
  /\ \A c \in PriceCalls :
       LET r == RunCall(c)
       IN /\ tracking_event \subseteq r.db.tracking_event
          /\ price_history \subseteq r.db.price_history

\* a listing has an event and a price entry, and a status change, an
\* upsert with another price and a direct price entry on it all succeed
C24_Witness ==
  \E l \in listing :
    /\ OwnedBy(tracking_event, l.id) # {}
    /\ OwnedBy(price_history, l.id) # {}
    /\ \E c \in LoggedCalls :
         c.mls = l.mls_number /\ c.op = "setStatus" /\ RunCall(c).pr.result
    /\ \E c \in LoggedCalls :
         c.mls = l.mls_number /\ c.op = "upsert" /\ RunCall(c).pr.result
    /\ \E c \in PriceCalls :
         c.mls = l.mls_number /\ RunCall(c).pr.rp_inserted

\* a record for the MLS number with the given fields, Absent or None for an
\* omitted one
RecordFor(mls, name, status, date, platform) ==
  [UpsertCall(mls, name, Absent, status, None, date, 0)
     EXCEPT !.source_platform = platform]

\* the records for an MLS number: each field supplied or omitted
RecordsFor(mls) ==
  {RecordFor(mls, name, status, date, platform) :
     name \in {Absent, "X"}, status \in {Absent, "Pending"},
     date \in {None, 0}, platform \in {Absent, "Scraper"}}

\* the row m is the row l overwritten with the record c
Overwritten(l, m, c, d) ==
  /\ m.status = (IF c.status = Absent THEN "Active" ELSE c.status)
  /\ m.source_platform =
       (IF c.source_platform = Absent THEN "Manual" ELSE c.source_platform)
  /\ m.listing_date = c.date
  /\ IF c.name = Absent
       THEN m.building_id = None
       ELSE \E b \in d.building : b.id = m.building_id /\ b.name = c.name
  /\ m.is_active = TRUE
  /\ m.mls_number = l.mls_number
  /\ m.first_seen_at = l.first_seen_at
  /\ m.created_at = l.created_at

\* C25: an upsertListing on an existing listing sets every mutable field
\* to the record's value, an omitted field becoming null (status "Active",
\* source platform "Manual", no building when neither name nor address is
\* given), sets is_active, and leaves id, mls_number, first_seen_at and
\* created_at as they were; this also when the listing held a value in
\* every field.
C25_UpdateOverwritesAllFields ==
  \A l \in listing :
    LET full == RecordFor(l.mls_number, "X", "Pending", 0, "Scraper")
        first == RunCall(full)
    IN /\ \E m \in first.db.listing :
            m.id = l.id /\ Overwritten(l, m, full, first.db)
       /\ \A c \in RecordsFor(l.mls_number) :
            LET r == Run(first.db, c, clock, tiePolicy)
                rows == {m \in r.db.listing : m.id = l.id}
            IN /\ Cardinality(rows) = 1
               /\ \A m \in rows : Overwritten(l, m, c, r.db)

\* an inactive, sold listing first seen on an earlier day meets an upsert
C25_Witness ==
  \E l \in listing :
    /\ l.is_active = FALSE
    /\ l.status = "Sold"
    /\ l.first_seen_at < clock
    /\ RunCall(RecordFor(l.mls_number, Absent, Absent, None, Absent)).pr.result

\* the calls that resolve a building, on either path, with each of name
\* and address supplied or not
ResolvingCalls ==
  {UpsertCall(mls, name, address, Absent, None, None, 0) :
     mls \in MlsNumbers, name \in Labels \cup {Absent},
     address \in Labels \cup {Absent}}
  \cup {CreateSaleCall(name, address, 1, 0, 0) :
          name \in Labels \cup {Absent}, address \in Labels \cup {Absent}}

\* C26: a Building row created by building resolution, on the listing path
\* or on the historical-sale path, has a name and an address when at least
\* one of them is supplied, the name taking the address and the address
\* taking the name when absent; when both are absent no building is
\* created and the reference is null.
C26_CreatedBuildingHasNameAndAddress ==
  \A c \in ResolvingCalls :
    LET r == RunCall(c)
        created == r.db.building \ building
    IN IF c.name = Absent /\ c.address = Absent
         THEN created = {} /\ r.pr.building_id = None
         ELSE \A b \in created :
                /\ b.name # Absent
                /\ b.address # Absent
                /\ c.name = Absent => b.name = c.address
                /\ c.address = Absent => b.address = c.name

\* C27: reconcileArtifacts does not delete the artifact directory of a
\* listing that exists in the store, the directory being the one photo
\* download and purge use for its MLS number.
C27_LiveListingKeepsDirectory ==
  \A l \in listing : \A e \in Subdirectories(fs.listings) :
    e.name = SafeMls(l.mls_number) =>
      e \in purge_orphaned_photos(db, fs, FALSE, FALSE).fs.listings

\* C28: when the store query for a live set fails, reconcileArtifacts
\* deletes no subdirectory under the corresponding root.
C28_FailedQueryDeletesNothing ==
  \A other_fails \in BOOLEAN :
    /\ Subdirectories(purge_orphaned_photos(db, fs, TRUE,
                                            other_fails).fs.listings)
         = Subdirectories(fs.listings)
    /\ Subdirectories(purge_orphaned_photos(db, fs, other_fails,
                                            TRUE).fs.historical_sales)
         = Subdirectories(fs.historical_sales)

\* C29: right after an upsertListing that returns priceRecorded = true for
\* price P, the listing's current price (the price of its entry with the
\* latest recorded date, as the next upsert reads it) is P, whatever the
\* record's listing_date and whatever entries the listing has already.
C29_RecordedPriceIsCurrent ==
  \A c \in PricedUpserts :
    LET r == RunCall(c)
    IN (r.pr.outcome = "ok" /\ r.pr.price_recorded = TRUE) =>
         CurrentPrice(r.db, r.pr.listing_id, tiePolicy) = c.price

\* C30: when two calls whose statements interleave have both recorded the
\* same (listing, date, price) and returned, the store holds exactly one
\* price-history row for that (listing, date, price).
C30_OneRowPerConcurrentRecord ==
  \A p, q \in Procs :
    (/\ p # q
     /\ procs[p].pc = "done" /\ procs[q].pc = "done"
     /\ procs[p].outcome = "ok" /\ procs[q].outcome = "ok"
     /\ procs[p].rp_called /\ procs[q].rp_called
     /\ procs[p].rp_lid = procs[q].rp_lid
     /\ procs[p].rp_date = procs[q].rp_date
     /\ procs[p].rp_price = procs[q].rp_price)
    => Cardinality({r \in price_history :
                      /\ r.listing_id = procs[p].rp_lid
                      /\ r.recorded_date = procs[p].rp_date
                      /\ r.price = ConvertParam(procs[p].rp_price)}) = 1

====
